---- MODULE Spec2Model ----
(***************************************************************************)
(* NeuroBridge (src/app.py and src/utils): the Streamlit session state,    *)
(* the page handlers that read and write it, the tap-timing feature        *)
(* extractor, the risk score computed by "Analyze Results", the text       *)
(* report and the rule-based responder.                                    *)
(*                                                                         *)
(* One action is one run of the script (Streamlit reruns main() on every   *)
(* interaction).  The page chosen in the sidebar and the values the        *)
(* widgets return in that run are the action's inputs.                     *)
(*                                                                         *)
(* Numbers.  Tap timestamps are whole ticks of 1/100 second, so the code's *)
(* std_interval * 100 (std in seconds) is the standard deviation measured  *)
(* in ticks.  A real number is kept exactly as a record [a, r, n] that     *)
(* stands for (a + sqrt(r)) / n, in the least terms (Norm).  The model     *)
(* computes in exact arithmetic; the rounding of IEEE doubles is not       *)
(* modelled.                                                               *)
(***************************************************************************)
EXTENDS Integers, Sequences, FiniteSets, TLC

VARIABLES
    risk_score,        \* st.session_state.risk_score: None or Some(real)
    symptoms,          \* st.session_state.symptoms: dict, as the sequence of its items
    tapping_data,      \* st.session_state.tapping_data: None or Some(timestamps)
    report_generated,  \* st.session_state.report_generated
    messages,          \* st.session_state.messages: None (key absent) or Some(history)
    view,              \* what the last run of the script rendered
    ex_taps,           \* extractor harness: the last two tap sequences given
    ex_out,            \* extractor harness: the features returned for each
    rq_query,          \* responder harness: the query given
    rq_out,            \* responder harness: the response returned
    tr_symptoms,       \* report harness: the symptoms dict given
    tr_out             \* report harness: the "Symptoms reported" line rendered

session == <<risk_score, symptoms, tapping_data, report_generated, messages, view>>
harness == <<ex_taps, ex_out, rq_query, rq_out, tr_symptoms, tr_out>>
vars == <<risk_score, symptoms, tapping_data, report_generated, messages, view,
          ex_taps, ex_out, rq_query, rq_out, tr_symptoms, tr_out>>

----------------------------------------------------------------------------
(* Bounds of the model *)

MaxTaps == 3       \* taps in a captured or extracted tap sequence
MaxCalls == 2      \* dialogue calls kept in the history
MaxPositive == 3   \* "Yes" answers in a checklist given to the text report

----------------------------------------------------------------------------
(* Python values *)

None == <<>>
Some(x) == <<x>>
IsNone(o) == o = <<>>
Get(o) == o[1]

(* Exact reals: [a, r, n] is (a + sqrt(r)) / n with n > 0 and r >= 0. *)

RECURSIVE SqrtSearch(_, _, _)
SqrtSearch(x, lo, hi) ==
    IF lo >= hi THEN lo
    ELSE LET mid == (lo + hi + 1) \div 2
         IN  IF mid * mid <= x THEN SqrtSearch(x, mid, hi) ELSE SqrtSearch(x, lo, mid - 1)

ISqrt(x) == SqrtSearch(x, 0, IF x < 40000 THEN x ELSE 40000)

IsSquare(x) == ISqrt(x) * ISqrt(x) = x

RECURSIVE GCD(_, _)
GCD(x, y) == IF y = 0 THEN x ELSE GCD(y, x % y)

Abs(x) == IF x < 0 THEN -x ELSE x

RECURSIVE Reduce(_, _)
Reduce(x, g) ==
    IF g <= 1 THEN x
    ELSE IF x.a % g = 0 /\ x.n % g = 0 /\ x.r % (g * g) = 0
         THEN [a |-> x.a \div g, r |-> x.r \div (g * g), n |-> x.n \div g]
         ELSE Reduce(x, g - 1)

Norm(x) ==
    IF IsSquare(x.r)
    THEN LET num == x.a + ISqrt(x.r)
             g == GCD(Abs(num), x.n)
         IN  [a |-> num \div g, r |-> 0, n |-> x.n \div g]
    ELSE Reduce(x, x.n)

IntReal(k) == [a |-> k, r |-> 0, n |-> 1]

AddInt(k, x) == Norm([a |-> x.a + k * x.n, r |-> x.r, n |-> x.n])

(* x < c for an integer c: sqrt(r) < c*n - a *)
RealLtInt(x, c) ==
    LET d == c * x.n - x.a
    IN  d > 0 /\ x.r < d * d

(* c < x for an integer c: c*n - a < sqrt(r) *)
IntLtReal(c, x) ==
    LET d == c * x.n - x.a
    IN  d < 0 \/ d * d < x.r

IsInteger(x) == x.r = 0 /\ x.n = 1

(* Python's min(c, x) with an integer c first: x only when x < c *)
PyMinInt(c, x) == IF RealLtInt(x, c) THEN x ELSE IntReal(c)

----------------------------------------------------------------------------
(* utils/data_processing.py *)

load_symptom_checklist ==
    << "tremor", "rigidity", "bradykinesia", "postural", "gait",
       "micrographia", "speech", "facial", "sleep", "memory" >>

CatalogIds == {load_symptom_checklist[i] : i \in 1..Len(load_symptom_checklist)}

np_diff(ts) == [i \in 1..(Len(ts) - 1) |-> ts[i + 1] - ts[i]]

RECURSIVE SumSeq(_)
SumSeq(s) == IF s = <<>> THEN 0 ELSE s[1] + SumSeq(Tail(s))

np_mean(xs) == Norm([a |-> SumSeq(xs), r |-> 0, n |-> Len(xs)])

(* population standard deviation: sqrt(n * sum(x^2) - sum(x)^2) / n *)
np_std(xs) ==
    LET n == Len(xs)
        s == SumSeq(xs)
        q == SumSeq([i \in 1..n |-> xs[i] * xs[i]])
    IN  Norm([a |-> 0, r |-> n * q - s * s, n |-> n])

RiskCap == 50

(* Variant: the contribution is not capped *)
process_tapping_data_uncapped(tapping_timestamps) ==
    IF Len(tapping_timestamps) < 2
    THEN [mean_interval |-> IntReal(0), std_interval |-> IntReal(0),
          risk_contribution |-> IntReal(0)]
    ELSE LET intervals == np_diff(tapping_timestamps)
             std_interval == np_std(intervals)
         IN  [mean_interval |-> np_mean(intervals),
              std_interval |-> std_interval,
              risk_contribution |-> std_interval]

process_tapping_data(tapping_timestamps) ==
    IF Len(tapping_timestamps) < 2
    THEN [mean_interval |-> IntReal(0), std_interval |-> IntReal(0),
          risk_contribution |-> IntReal(0)]
    ELSE LET intervals == np_diff(tapping_timestamps)
             std_interval == np_std(intervals)
         IN  [mean_interval |-> np_mean(intervals),
              std_interval |-> std_interval,
              risk_contribution |-> PyMinInt(RiskCap, std_interval)]

----------------------------------------------------------------------------
(* utils/rag_system.py *)

UpperChars == "ABCDEFGHIJKLMNOPQRSTUVWXYZ"
LowerChars == "abcdefghijklmnopqrstuvwxyz"

LowerChar(c) ==
    IF \E i \in 1..26 : SubSeq(UpperChars, i, i) = c
    THEN LET i == CHOOSE j \in 1..26 : SubSeq(UpperChars, j, j) = c
         IN  SubSeq(LowerChars, i, i)
    ELSE c

RECURSIVE str_lower(_)
str_lower(s) ==
    IF Len(s) = 0 THEN ""
    ELSE LowerChar(SubSeq(s, 1, 1)) \o str_lower(SubSeq(s, 2, Len(s)))

(* re.search of an alternation of literal words: some word occurs in s *)
re_search(pattern, s) ==
    \E k \in 1..Len(pattern) :
        \E i \in 1..(Len(s) - Len(pattern[k]) + 1) :
            SubSeq(s, i, i + Len(pattern[k]) - 1) = pattern[k]

RESPONSE_RULES ==
    << [pattern |-> <<"symptom", "sign", "feel">>,
        responses |->
          << "Common early symptoms include tremors, stiffness, and balance issues.",
             "Many people experience slight tremors in their hands or fingers as an early sign." >>],
       [pattern |-> <<"treat", "medication", "drug">>,
        responses |->
          << "Treatment often includes medications like Levodopa and physical therapy.",
             "Doctors may prescribe various medications to manage symptoms effectively." >>],
       [pattern |-> <<"exercise", "activity", "physical">>,
        responses |->
          << "Regular exercise like walking or swimming can help maintain mobility.",
             "Physical therapy is often recommended to improve balance and coordination." >>],
       [pattern |-> <<"diet", "food", "eat">>,
        responses |->
          << "A balanced diet with plenty of fiber can help manage symptoms.",
             "Some people find that certain dietary changes help with their symptoms." >>],
       [pattern |-> <<"risk", "chance", "likely">>,
        responses |->
          << "Risk factors include age, family history, and exposure to certain toxins.",
             "The risk increases with age, but Parkinson's can affect people of all ages." >>] >>

DEFAULT_RESPONSES ==
    << "I'm here to help with information about neurological health.",
       "That's a good question about Parkinson's disease management.",
       "I can provide general information, but please consult a doctor for medical advice." >>

(* The loop of get_response from rule i on: the list random.choice draws from *)
RECURSIVE MatchFrom(_, _)
MatchFrom(query, i) ==
    IF i > Len(RESPONSE_RULES) THEN DEFAULT_RESPONSES
    ELSE IF re_search(RESPONSE_RULES[i].pattern, query)
         THEN RESPONSE_RULES[i].responses
         ELSE MatchFrom(query, i + 1)

(* Variant: the query is matched as typed, not lower-cased *)
get_response_as_typed(query) ==
    LET choices == MatchFrom(query, 1)
    IN  {choices[i] : i \in 1..Len(choices)}

(* get_response: every value random.choice can return for the query *)
get_response(query) ==
    LET choices == MatchFrom(str_lower(query), 1)
    IN  {choices[i] : i \in 1..Len(choices)}

----------------------------------------------------------------------------
(* app.py: the session *)

(* dict assignment d[k] = v: an existing key keeps its place, a new one is appended *)
DictSet(d, k, v) ==
    IF \E i \in 1..Len(d) : d[i].k = k
    THEN [i \in 1..Len(d) |-> IF d[i].k = k THEN [k |-> k, v |-> v] ELSE d[i]]
    ELSE Append(d, [k |-> k, v |-> v])

(* show_detect's loop over the checklist, from entry i on: symptoms[id] = radio value *)
RECURSIVE AnswerChecklist(_, _, _)
AnswerChecklist(d, radio, i) ==
    IF i > Len(load_symptom_checklist) THEN d
    ELSE AnswerChecklist(DictSet(d, load_symptom_checklist[i], radio[load_symptom_checklist[i]]),
                         radio, i + 1)

symptom_score(d) == Cardinality({i \in 1..Len(d) : d[i].v = "Yes"})

Truthy(o) == ~IsNone(o) /\ Get(o) # <<>>

MaxRisk == 100

(* Variant: the sum is stored without min(100, ...) *)
Analyze_unclamped(d, taps) ==
    LET base == symptom_score(d) * 10
    IN  IF Truthy(taps)
        THEN AddInt(base, process_tapping_data(Get(taps)).risk_contribution)
        ELSE IntReal(base)

(* Variant: the rule of predict_risk in utils/ml_models.py, whose cap is 40 *)
Analyze_as_predict_risk(d, taps) ==
    LET base == symptom_score(d) * 10
    IN  IF Truthy(taps)
        THEN PyMinInt(MaxRisk, AddInt(base,
                 PyMinInt(40, process_tapping_data(Get(taps)).std_interval)))
        ELSE IntReal(base)

(* Variant: a score already stored is kept *)
Analyze_keep_first(d, taps) ==
    IF ~IsNone(risk_score) THEN Get(risk_score)
    ELSE LET base == symptom_score(d) * 10
         IN  IF Truthy(taps)
             THEN PyMinInt(MaxRisk, AddInt(base, process_tapping_data(Get(taps)).risk_contribution))
             ELSE IntReal(base)

(* The body of "Analyze Results": the value stored in risk_score *)
Analyze(d, taps) ==
    LET base == symptom_score(d) * 10
    IN  IF Truthy(taps)
        THEN PyMinInt(MaxRisk, AddInt(base, process_tapping_data(Get(taps)).risk_contribution))
        ELSE IntReal(base)

RECURSIVE str_join(_, _)
str_join(sep, xs) ==
    IF Len(xs) = 0 THEN ""
    ELSE IF Len(xs) = 1 THEN xs[1]
    ELSE xs[1] \o sep \o str_join(sep, Tail(xs))

(* Variant: the filter is "if v", and "No" is a true value as well *)
positive_symptoms_truthy(d) == [i \in 1..Len(d) |-> d[i].k]

(* dict items in order, as [s for s, v in symptoms.items() if v == "Yes"] reads them *)
RECURSIVE positive_symptoms(_)
positive_symptoms(d) ==
    IF d = <<>> THEN <<>>
    ELSE IF d[1].v = "Yes" THEN <<d[1].k>> \o positive_symptoms(Tail(d))
    ELSE positive_symptoms(Tail(d))

(* generate_text_report: the line under "Symptoms reported:"; the other lines are
   fixed text, the date and the score *)
generate_text_report(d) ==
    IF positive_symptoms(d) # <<>> THEN str_join(", ", positive_symptoms(d)) ELSE "None"

show_home ==
    /\ view' = "Home"
    /\ UNCHANGED <<risk_score, symptoms, tapping_data, report_generated, messages>>
    /\ UNCHANGED harness

show_about ==
    /\ view' = "About"
    /\ UNCHANGED <<risk_score, symptoms, tapping_data, report_generated, messages>>
    /\ UNCHANGED harness

(* radio: the value of every radio widget in this run; button: the button whose
   click caused the run, <<"none">>, <<"analyze">> or <<"start_tapping", t>> with
   t what run_tapping_test returns *)
show_detect(radio, button) ==
    LET answered == AnswerChecklist(symptoms, radio, 1)
        taps == IF button[1] = "start_tapping" THEN button[2] ELSE tapping_data
    IN  /\ symptoms' = answered
        /\ tapping_data' = taps
        /\ IF button[1] = "analyze"
           THEN /\ risk_score' = Some(Analyze(answered, taps))
                /\ view' = "Analysis"
           ELSE /\ UNCHANGED risk_score
                /\ view' = "Detect"
        /\ UNCHANGED <<report_generated, messages>>
        /\ UNCHANGED harness

(* Variant: the flag is set before the score is looked at *)
show_connect_flag_first ==
    /\ report_generated' = TRUE
    /\ view' = (IF IsNone(risk_score) THEN "ConnectWarning" ELSE "Report")
    /\ UNCHANGED <<risk_score, symptoms, tapping_data, messages>>
    /\ UNCHANGED harness

show_connect ==
    /\ IF IsNone(risk_score)
       THEN /\ view' = "ConnectWarning"
            /\ UNCHANGED report_generated
       ELSE /\ report_generated' = TRUE
            /\ view' = "Report"
    /\ UNCHANGED <<risk_score, symptoms, tapping_data, messages>>
    /\ UNCHANGED harness

(* Variant: the response is stored before the query *)
handle_user_query_response_first(history, query, response) ==
    Append(Append(history, [role |-> "assistant", content |-> response]),
           [role |-> "user", content |-> query])

(* Variant: the history is replaced by the last exchange *)
handle_user_query_last_only(history, query, response) ==
    <<[role |-> "user", content |-> query], [role |-> "assistant", content |-> response]>>

(* handle_user_query: the history after the query and one possible response *)
handle_user_query(history, query, response) ==
    Append(Append(history, [role |-> "user", content |-> query]),
           [role |-> "assistant", content |-> response])

(* Variant: the assistant is shown without looking at report_generated *)
show_personalize_ungated(input) ==
    /\ LET history == IF IsNone(messages) THEN <<>> ELSE Get(messages)
       IN  /\ view' = "Assistant"
           /\ \/ /\ input[1] = "none"
                 /\ messages' = Some(history)
              \/ /\ input[1] = "query"
                 /\ Len(history) < 2 * MaxCalls
                 /\ \E response \in get_response(input[2]) :
                       messages' = Some(handle_user_query(history, input[2], response))
              \/ /\ input[1] = "clear"
                 /\ messages' = Some(<<>>)
    /\ UNCHANGED <<risk_score, symptoms, tapping_data, report_generated>>
    /\ UNCHANGED harness

(* input: <<"none">>, <<"query", q>> (a suggested question or the chat input)
   or <<"clear">> *)
show_personalize(input) ==
    /\ IF ~report_generated
       THEN /\ view' = "PersonalizeWarning"
            /\ UNCHANGED messages
       ELSE LET history == IF IsNone(messages) THEN <<>> ELSE Get(messages)
            IN  /\ view' = "Assistant"
                /\ \/ /\ input[1] = "none"
                      /\ messages' = Some(history)
                   \/ /\ input[1] = "query"
                      /\ Len(history) < 2 * MaxCalls
                      /\ \E response \in get_response(input[2]) :
                            messages' = Some(handle_user_query(history, input[2], response))
                   \/ /\ input[1] = "clear"
                      /\ messages' = Some(<<>>)
    /\ UNCHANGED <<risk_score, symptoms, tapping_data, report_generated>>
    /\ UNCHANGED harness

----------------------------------------------------------------------------
(* Widgets.  A button can be clicked only on the page the previous run rendered
   it on, and the run its click causes sees the other widgets unchanged. *)

DetectShown == view \in {"Detect", "Analysis"}

AssistantShown == view = "Assistant"

(* The radio values as the last run of show_detect stored them *)
CurrentRadio == [id \in CatalogIds |-> symptoms[CHOOSE i \in 1..Len(symptoms) : symptoms[i].k = id].v]

(* The radio values of a run in which exactly the ids in yes are answered "Yes" *)
RadioOf(yes) == [id \in CatalogIds |-> IF id \in yes THEN "Yes" ELSE "No"]

FirstIds(k) == {load_symptom_checklist[i] : i \in 1..k}

(* Timestamps of n taps: the first at tick 20, then one of the intervals in steps *)
RECURSIVE TapsOfLen(_, _)
TapsOfLen(n, steps) ==
    IF n = 0 THEN {<<>>}
    ELSE IF n = 1 THEN {<<20>>}
    ELSE {Append(ts, ts[Len(ts)] + d) : ts \in TapsOfLen(n - 1, steps), d \in steps}

(* Intervals between captured taps, in ticks: run_tapping_test sleeps 0.2 s
   before every tap, so an interval is 20 ticks or more *)
IntervalChoices == {20, 21, 140}

(* What run_tapping_test can return: None, or the timestamps of one or more taps *)
CapturedTaps ==
    {None} \cup {Some(ts) : ts \in UNION {TapsOfLen(n, IntervalChoices) : n \in 1..MaxTaps}}

SuggestedQuestions ==
    << "What lifestyle changes can I make to improve my neurological health?",
       "How accurate is this assessment?",
       "What are the early signs of Parkinson's disease?",
       "Should I see a specialist based on my results?",
       "What exercises can help with coordination?",
       "How often should I monitor my symptoms?" >>

DetectPage(Radios, Taps) ==
    \/ \E radio \in Radios : show_detect(radio, <<"none">>)
    \/ /\ DetectShown
       /\ \E button \in {<<"analyze">>} \cup {<<"start_tapping", t>> : t \in Taps} :
            show_detect(CurrentRadio, button)

PersonalizePage(Queries) ==
    \/ show_personalize(<<"none">>)
    \/ /\ AssistantShown
       /\ \E input \in {<<"clear">>} \cup {<<"query", q>> : q \in Queries} :
            show_personalize(input)

----------------------------------------------------------------------------
(* The session: app.py lines 32-39 initialise the state *)

Init ==
    /\ risk_score = None
    /\ symptoms = <<>>
    /\ tapping_data = None
    /\ report_generated = FALSE
    /\ messages = None
    /\ view = "Start"
    /\ ex_taps = <<>>
    /\ ex_out = <<>>
    /\ rq_query = None
    /\ rq_out = None
    /\ tr_symptoms = <<>>
    /\ tr_out = None

(* Spec: the whole session, with the inputs that decide the workflow and the
   dialogue: two checklists, two tap results, two questions *)

WorkflowRadios == {RadioOf({}), RadioOf(FirstIds(2))}

WorkflowTaps == {None, Some(<<20, 40, 61>>)}

SessionQueries == {SuggestedQuestions[2], SuggestedQuestions[5]}

Next ==
    \/ show_home
    \/ show_about
    \/ DetectPage(WorkflowRadios, WorkflowTaps)
    \/ show_connect
    \/ PersonalizePage(SessionQueries)

Spec == Init /\ [][Next]_vars

(* SpecAssess: the whole session, with the inputs that decide the score: five
   checklists and every captured tap sequence up to MaxTaps taps *)

AssessRadios ==
    {RadioOf(yes) : yes \in {{}, FirstIds(2), {"sleep", "gait", "tremor"},
                             FirstIds(6), CatalogIds}}

NextAssess ==
    \/ show_home
    \/ show_about
    \/ DetectPage(AssessRadios, CapturedTaps)
    \/ show_connect
    \/ PersonalizePage({})

SpecAssess == Init /\ [][NextAssess]_vars

----------------------------------------------------------------------------
(* SpecExtract: process_tapping_data applied to tap sequences; the last two calls
   are kept, each with the features it returned *)

LastTwo(xs) == IF Len(xs) > 2 THEN Tail(xs) ELSE xs

(* Well-formed tap sequences: non-decreasing timestamps, any length from 0 *)
TapSequences == UNION {TapsOfLen(n, IntervalChoices \cup {0}) : n \in 0..MaxTaps}

extract(ts) ==
    /\ ex_taps' = LastTwo(Append(ex_taps, ts))
    /\ ex_out' = LastTwo(Append(ex_out, process_tapping_data(ts)))
    /\ UNCHANGED <<rq_query, rq_out, tr_symptoms, tr_out>>
    /\ UNCHANGED session

NextExtract == \E ts \in TapSequences : extract(ts)

SpecExtract == Init /\ [][NextExtract]_vars

(* SpecRespond: get_response applied to queries *)

QueryWords == {"symptoms", "Treatment", "exercises", "DIET", "risk", "eat", "feel", "hello"}

Queries ==
    {SuggestedQuestions[i] : i \in 1..Len(SuggestedQuestions)}
    \cup {"What exercises help?"}
    \cup {w1 \o " " \o w2 : w1, w2 \in QueryWords}

respond(query) ==
    /\ \E response \in get_response(query) :
          /\ rq_query' = Some(query)
          /\ rq_out' = Some(response)
    /\ UNCHANGED <<ex_taps, ex_out, tr_symptoms, tr_out>>
    /\ UNCHANGED session

NextRespond == \E query \in Queries : respond(query)

SpecRespond == Init /\ [][NextRespond]_vars

(* SpecReport: the checklist answered (again and again) and the text report
   rendered from the dict show_detect's loop leaves *)

ReportRadios ==
    {RadioOf(yes) : yes \in {y \in SUBSET CatalogIds : Cardinality(y) <= MaxPositive}
                            \cup {CatalogIds}}

text_report(radio) ==
    /\ tr_symptoms' = AnswerChecklist(tr_symptoms, radio, 1)
    /\ tr_out' = Some(generate_text_report(tr_symptoms'))
    /\ UNCHANGED <<ex_taps, ex_out, rq_query, rq_out>>
    /\ UNCHANGED session

NextReport == \E radio \in ReportRadios : text_report(radio)

SpecReport == Init /\ [][NextReport]_vars

----------------------------------------------------------------------------
(* Properties *)

History == IF IsNone(messages) THEN <<>> ELSE Get(messages)

IsPrefix(xs, ys) == Len(xs) <= Len(ys) /\ SubSeq(ys, 1, Len(xs)) = xs

(* A run of the script that called handle_user_query: the history grew *)
DialogueStep == Len(History') > Len(History)

(* C1: a dialogue response is produced only while report_generated holds (the
   workflow is in ReportGenerated), a generated report always has a computed risk
   score behind it, and a run of the assistant page without a generated report
   shows the guidance message and produces no response. *)
C1_DialogueOnlyAfterReport ==
    /\ [](History # <<>> => report_generated)
    /\ [](report_generated => ~IsNone(risk_score))
    /\ [][DialogueStep => (report_generated /\ ~IsNone(risk_score))]_vars
    /\ [][(view' \in {"PersonalizeWarning", "Assistant"} /\ ~report_generated)
            => (view' = "PersonalizeWarning" /\ messages' = messages)]_vars

C1_Witness ==
    /\ Len(History) >= 2
    /\ History[2].role = "assistant"
    /\ report_generated

(* C2: pressing Analyze again after a report was generated leaves the workflow
   outside ReportGenerated, so the dialogue is rejected until a new report. *)
C2_NewAssessmentInvalidatesReport ==
    [][(report_generated /\ view' = "Analysis") => ~report_generated']_vars

Score == Get(risk_score)

(* C3: the stored risk score is absent or lies in [0, 100]. *)
C3_ScoreInRange ==
    IsNone(risk_score) \/ (~RealLtInt(Score, 0) /\ ~IntLtReal(100, Score))

C3_Witness ==
    /\ view = "Analysis"
    /\ \A id \in CatalogIds : CurrentRadio[id] = "Yes"
    /\ Truthy(tapping_data)
    /\ process_tapping_data(Get(tapping_data)).risk_contribution = IntReal(50)
    /\ Score = IntReal(100)

(* C4: every dialogue call appends exactly two entries, the query as user and
   then the response as assistant; the history has even length and its roles
   alternate user, assistant. *)
C4_HistoryAlternates ==
    /\ [](/\ Len(History) % 2 = 0
          /\ \A i \in 1..Len(History) :
                History[i].role = (IF i % 2 = 1 THEN "user" ELSE "assistant"))
    /\ [][DialogueStep =>
            /\ Len(History') = Len(History) + 2
            /\ IsPrefix(History, History')
            /\ History'[Len(History) + 1].role = "user"
            /\ History'[Len(History) + 2].role = "assistant"
            /\ History'[Len(History) + 2].content
                    \in get_response(History'[Len(History) + 1].content)]_vars

C4_Witness ==
    /\ Len(History) = 4
    /\ History[3].content = SuggestedQuestions[5]

(* C5: a report requested while no risk score exists, and the dialogue requested
   before a report was generated, are answered with the guidance message and
   leave risk_score, symptoms, tapping data, report_generated (still false) and
   the history unchanged. *)
C5_InvalidStateKeepsState ==
    /\ [][(view' \in {"ConnectWarning", "Report"} /\ IsNone(risk_score))
            => /\ view' = "ConnectWarning"
               /\ ~report_generated'
               /\ UNCHANGED <<risk_score, symptoms, tapping_data, report_generated,
                              messages>>]_vars
    /\ [][(view' \in {"PersonalizeWarning", "Assistant"} /\ ~report_generated)
            => /\ view' = "PersonalizeWarning"
               /\ UNCHANGED <<risk_score, symptoms, tapping_data, report_generated,
                              messages>>]_vars

C5_Witness ==
    /\ view = "PersonalizeWarning"
    /\ ~IsNone(risk_score)
    /\ Truthy(tapping_data)
    /\ ~report_generated

(* Variability stated apart from np_std: n^2 times the population variance of the
   intervals is the sum of the squared differences over all pairs of intervals. *)
Gaps(ts) == [i \in 1..(Len(ts) - 1) |-> ts[i + 1] - ts[i]]

RECURSIVE PairSpread(_, _, _)
PairSpread(d, i, j) ==
    IF i >= Len(d) THEN 0
    ELSE IF j > Len(d) THEN PairSpread(d, i + 1, i + 2)
    ELSE (d[i] - d[j]) * (d[i] - d[j]) + PairSpread(d, i, j + 1)

Spread(ts) == PairSpread(Gaps(ts), 1, 2)

(* The square of x - k, as a fraction, for a real x >= k that is rational or a
   pure square root above k *)
PureAbove(x, k) == x.a - k * x.n >= 0 /\ (x.r = 0 \/ x.a - k * x.n = 0)
SqNum(x, k) == IF x.r = 0 THEN (x.a - k * x.n) * (x.a - k * x.n) ELSE x.r
SqDen(x) == x.n * x.n

(* x - k = min(cap, 100 * std of the intervals of ts), std in seconds *)
IsCappedStd(x, k, ts, cap) ==
    LET n == Len(ts) - 1
    IN  IF Spread(ts) >= cap * cap * n * n
        THEN x = IntReal(k + cap)
        ELSE PureAbove(x, k) /\ SqNum(x, k) * n * n = Spread(ts) * SqDen(x)

YesCount == Cardinality({id \in CatalogIds : CurrentRadio[id] = "Yes"})

(* 10 * yes + contribution < 100, the contribution being that of the taps held *)
BelowCeiling(k, ts) ==
    LET n == Len(ts) - 1
        room == 100 - 10 * k
    IN  room > 0 /\ (Len(ts) < 2 \/ Spread(ts) < room * room * n * n)

(* C6: right after Analyze the score is clamp(10 * yes + risk_contribution of
   the taps when present, 0, 100); two yes and no taps give 20, no yes and
   regular taps give 0, ten yes give 100. *)
C6_ScoreFormula ==
    view = "Analysis" =>
        LET k == YesCount
            ts == IF Truthy(tapping_data) THEN Get(tapping_data) ELSE <<>>
        IN  /\ ~IsNone(risk_score)
            /\ IF ~BelowCeiling(k, ts) THEN Score = IntReal(100)
               ELSE IF Len(ts) < 2 THEN Score = IntReal(10 * k)
               ELSE IsCappedStd(Score, 10 * k, ts, 50)
            /\ (k = 2 /\ IsNone(tapping_data)) => Score = IntReal(20)
            /\ (k = 0 /\ Len(ts) >= 2 /\ \A i \in 1..(Len(ts) - 1) : Gaps(ts)[i] = Gaps(ts)[1])
                    => Score = IntReal(0)
            /\ k = 10 => Score = IntReal(100)

C6_Witness ==
    /\ view = "Analysis"
    /\ YesCount = 2
    /\ tapping_data = Some(<<20, 40, 61>>)
    /\ Score = [a |-> 41, r |-> 0, n |-> 2]

(* C7: the stored risk score is an integer. *)
C7_ScoreIsInteger == IsNone(risk_score) \/ IsInteger(Score)


(* x <= y for reals that are rational or pure square roots, both >= 0 *)
PureLeq(x, y) == SqNum(x, 0) * SqDen(y) <= SqNum(y, 0) * SqDen(x)

Degenerate ==
    [mean_interval |-> IntReal(0), std_interval |-> IntReal(0),
     risk_contribution |-> IntReal(0)]

(* C8: risk_contribution lies in [0, 50]; fewer than 2 timestamps give
   {0, 0, 0}; 2 or more non-decreasing timestamps give min(50, 100 * std), which
   never decreases when the variability of the intervals increases. *)
C8_ContributionBounded ==
    /\ \A i \in 1..Len(ex_out) :
          LET ts == ex_taps[i]
              rc == ex_out[i].risk_contribution
          IN  /\ ~RealLtInt(rc, 0)
              /\ ~IntLtReal(50, rc)
              /\ Len(ts) < 2 => ex_out[i] = Degenerate
              /\ Len(ts) >= 2 => IsCappedStd(rc, 0, ts, 50)
    /\ \A i, j \in 1..Len(ex_out) :
          (/\ Len(ex_taps[i]) >= 2
           /\ Len(ex_taps[j]) >= 2
           /\ Spread(ex_taps[i]) * (Len(ex_taps[j]) - 1) * (Len(ex_taps[j]) - 1)
                <= Spread(ex_taps[j]) * (Len(ex_taps[i]) - 1) * (Len(ex_taps[i]) - 1))
          => PureLeq(ex_out[i].risk_contribution, ex_out[j].risk_contribution)

C8_Witness ==
    /\ Len(ex_out) = 2
    /\ ex_taps[1] = <<20, 40, 61>>
    /\ ex_out[1].risk_contribution = [a |-> 1, r |-> 0, n |-> 2]
    /\ ex_taps[2] = <<20, 40, 180>>
    /\ ex_out[2].risk_contribution = IntReal(50)

(* Does the word occur in the text: some suffix of the text starts with it *)
RECURSIVE Occurs(_, _)
Occurs(word, text) ==
    IF Len(text) < Len(word) THEN FALSE
    ELSE IF SubSeq(text, 1, Len(word)) = word THEN TRUE
    ELSE Occurs(word, SubSeq(text, 2, Len(text)))

TopicWords ==
    << {"symptom", "sign", "feel"}, {"treat", "medication", "drug"},
       {"exercise", "activity", "physical"}, {"diet", "food", "eat"},
       {"risk", "chance", "likely"} >>

ResponseSet(i) == {RESPONSE_RULES[i].responses[n] : n \in 1..Len(RESPONSE_RULES[i].responses)}

DefaultSet == {DEFAULT_RESPONSES[n] : n \in 1..Len(DEFAULT_RESPONSES)}

MatchingTopics(query) ==
    {i \in 1..5 : \E w \in TopicWords[i] : Occurs(w, str_lower(query))}

(* C9: the response comes from the set of the first-declared topic whose pattern
   matches the lower-cased query, from no later matching topic's set, and from
   the default set only when no topic matches; "What exercises help?" is
   answered from the exercise topic's set. *)
C9_FirstTopicWins ==
    ~IsNone(rq_query) =>
        LET query == Get(rq_query)
            out == Get(rq_out)
            match == MatchingTopics(query)
        IN  /\ match = {} => (out \in DefaultSet /\ \A i \in 1..5 : out \notin ResponseSet(i))
            /\ match # {} =>
                  LET first == CHOOSE i \in match : \A j \in match : i <= j
                  IN  /\ out \in ResponseSet(first)
                      /\ out \notin DefaultSet
                      /\ \A j \in match \ {first} : out \notin ResponseSet(j)
            /\ query = "What exercises help?" =>
                  out \in {"Regular exercise like walking or swimming can help maintain mobility.",
                           "Physical therapy is often recommended to improve balance and coordination."}

C9_Witness ==
    /\ rq_query = Some("DIET risk")
    /\ rq_out = Some("Some people find that certain dietary changes help with their symptoms.")

(* The pieces of a line between the separators ", " *)
RECURSIVE SplitLine(_)
SplitLine(line) ==
    IF \E i \in 1..(Len(line) - 1) : SubSeq(line, i, i + 1) = ", "
    THEN LET i == CHOOSE p \in 1..(Len(line) - 1) :
                    /\ SubSeq(line, p, p + 1) = ", "
                    /\ \A q \in 1..(p - 1) : SubSeq(line, q, q + 1) # ", "
         IN  <<SubSeq(line, 1, i - 1)>> \o SplitLine(SubSeq(line, i + 2, Len(line)))
    ELSE <<line>>

AnsweredYes(id) == \E i \in 1..Len(tr_symptoms) : tr_symptoms[i] = [k |-> id, v |-> "Yes"]

(* C10: the summary lists exactly the ids answered "yes", once each and in
   catalog order, and renders "None" when there is none. *)
C10_SummaryListsPositives ==
    ~IsNone(tr_out) =>
        LET expected == SelectSeq(load_symptom_checklist, AnsweredYes)
        IN  IF expected = <<>> THEN Get(tr_out) = "None"
            ELSE SplitLine(Get(tr_out)) = expected

C10_Witness == tr_out = Some("tremor, gait, sleep")


(* C11: the history is append-only: across every run of the script the previous
   history is a prefix of the new one, except a Clear Chat on the assistant
   page, which empties the history and leaves risk_score, symptoms, tapping
   data and report_generated unchanged; the runs of the other pages leave the
   history as it is. *)
C11_HistoryAppendOnly ==
    /\ [][\/ IsPrefix(History, History')
          \/ /\ AssistantShown
             /\ view' = "Assistant"
             /\ History' = <<>>
             /\ UNCHANGED <<risk_score, symptoms, tapping_data, report_generated>>]_vars
    /\ [][view' \notin {"Assistant"} => messages' = messages]_vars

C11_Witness ==
    /\ Len(History) = 4
    /\ History[1].content = SuggestedQuestions[2]
    /\ History[3].content = SuggestedQuestions[2]
    /\ view = "Analysis"


(* The score that 10 * yes and the taps held call for, whatever was stored before *)
ScoreFitsInputs ==
    LET k == YesCount
        ts == IF Truthy(tapping_data) THEN Get(tapping_data) ELSE <<>>
    IN  /\ ~IsNone(risk_score)
        /\ IF ~BelowCeiling(k, ts) THEN Score = IntReal(100)
           ELSE IF Len(ts) < 2 THEN Score = IntReal(10 * k)
           ELSE IsCappedStd(Score, 10 * k, ts, 50)

(* C12: the score Analyze stores depends on the current symptom responses and
   tap sequence only: it replaces whatever score was stored, whether or not a
   report or a conversation exists, and Analyze run again on the inputs of the
   previous Analyze stores the same score. *)
C12_ScoreOverwritten ==
    /\ [][view' = "Analysis" => ScoreFitsInputs']_vars
    /\ [][(view = "Analysis" /\ view' = "Analysis"
           /\ symptoms' = symptoms /\ tapping_data' = tapping_data)
            => risk_score' = risk_score]_vars

C12_Witness ==
    /\ view = "Analysis"
    /\ report_generated
    /\ Len(History) = 2
    /\ YesCount = 0
    /\ tapping_data = Some(<<20, 40, 61>>)
    /\ Score = [a |-> 1, r |-> 0, n |-> 2]

====
